---------------------------- MODULE Spec2Model ----------------------------
(***************************************************************************)
(* Markov Chain Visualizer (src/js/app.js): the global `state` object, the *)
(* DOM inputs the handlers read back, the browser's timer table, and one   *)
(* action per event handler.                                               *)
(*                                                                         *)
(* Numbers.  A JavaScript number is modelled as an exact rational          *)
(* <<num, den>> in lowest terms with den > 0.  Two extra values exist:     *)
(*   NaN   == <<0, 0>>  the JavaScript NaN (undefined * x, NaN + x, ...)    *)
(*   Unrep == <<1, 0>>  a rational whose numerator or denominator does not  *)
(*                      fit TLC's integers      (> MaxNum); an action   *)
(*                      whose result would hold Unrep is not explored.     *)
(* Floating-point rounding error is not modelled; the tolerances 1e-9 and  *)
(* 1e-12 of the code are compared exactly.                                 *)
(* The stationary solver, which iterates far longer than a step does, has  *)
(* its own exact fractions of naturals of any size (see Base).             *)
(***************************************************************************)
EXTENDS Integers, Sequences, FiniteSets, TLC

\* ------------------------------------------------------------------ bounds
\* Largest numerator / denominator the model represents.
MaxNum == 2000000000
\* Largest step counter from which a step is still explored.
MaxT == 3
\* Largest number of configuration edits explored (cell and vector edits,
\* add/remove state, normalize, randomize, uniform).
MaxEdits == 1

\* ------------------------------------------------------ exact arithmetic
NaN == <<0, 0>>
Unrep == <<1, 0>>
Zero == <<0, 1>>
One == <<1, 1>>

IsNaN(x) == x = NaN
IsUnrep(x) == x = Unrep
IsNum(x) == x[2] > 0

\* Op applied to the values of its arguments, each evaluated once.
Eager1(Op(_), x) == CHOOSE r \in {Op(a) : a \in {x}} : TRUE
Eager2(Op(_, _), x, y) == CHOOSE r \in {Op(a, b) : a \in {x}, b \in {y}} : TRUE
Eager3(Op(_, _, _), x, y, z) ==
    CHOOSE r \in {Op(a, b, c) : a \in {x}, b \in {y}, c \in {z}} : TRUE

GcdOf[a \in Nat, b \in Nat] == IF b = 0 THEN a ELSE GcdOf[b, a % b]
GCD(a, b) == GcdOf[a, b]

\* Products and sums of naturals; -1 when an operand is -1 or the result
\* exceeds MaxNum.
SafeTimes(a, b) ==
    IF a < 0 \/ b < 0 THEN -1
    ELSE IF a = 0 \/ b = 0 THEN 0
    ELSE IF a > MaxNum \div b THEN -1
    ELSE a * b
SafePlus(a, b) ==
    IF a < 0 \/ b < 0 THEN -1
    ELSE IF a > MaxNum - b THEN -1
    ELSE a + b

\* The rational n/d (n >= 0, d > 0) in lowest terms; Unrep on overflow.
Rat(n, d) ==
    IF n < 0 \/ d <= 0 THEN Unrep
    ELSE LET g == GCD(n, d) IN <<n \div g, d \div g>>

\* x * y in JavaScript: NaN when either operand is NaN (or undefined).
RMul(x, y) ==
    IF IsUnrep(x) \/ IsUnrep(y) THEN Unrep
    ELSE IF IsNaN(x) \/ IsNaN(y) THEN NaN
    ELSE LET g1 == GCD(x[1], y[2])
             g2 == GCD(y[1], x[2])
         IN  Rat(SafeTimes(x[1] \div g1, y[1] \div g2),
                 SafeTimes(x[2] \div g2, y[2] \div g1))

\* x + y.
RAdd(x, y) ==
    IF IsUnrep(x) \/ IsUnrep(y) THEN Unrep
    ELSE IF IsNaN(x) \/ IsNaN(y) THEN NaN
    ELSE LET g == GCD(x[2], y[2])
             l == SafeTimes(x[2] \div g, y[2])
         IN  IF l < 0 THEN Unrep
             ELSE Rat(SafePlus(SafeTimes(x[1], l \div x[2]),
                               SafeTimes(y[1], l \div y[2])), l)

\* x / s for s > 0.
RDiv(x, s) ==
    IF IsUnrep(x) \/ IsUnrep(s) THEN Unrep
    ELSE IF IsNaN(x) \/ IsNaN(s) THEN NaN
    ELSE RMul(x, <<s[2], s[1]>>)

\* v.reduce((a,b)=>a+b, 0)
RECURSIVE SumFrom(_, _)
SumFrom(v, k) ==
    IF k > Len(v) THEN Zero ELSE Eager2(RAdd, v[k], SumFrom(v, k + 1))
RSum(v) == SumFrom(v, 1)

\* v[k], or undefined (which every arithmetic operation turns into NaN)
\* when k is past the end of the array.
Elem(v, k) == IF k \in 1..Len(v) THEN v[k] ELSE NaN

RepVec(v) == \A k \in 1..Len(v) : ~IsUnrep(v[k])
RepMat(M) == \A i \in 1..Len(M) : RepVec(M[i])


\* ------------------------------------------------------- pure functions
\* normalizeRow (app.js:29-33)
normalizeRow(row) ==
    LET s == RSum(row)
    IN  IF IsNum(s) /\ s[1] <= 0 THEN [k \in 1..Len(row) |-> Zero]
        ELSE [k \in 1..Len(row) |-> RDiv(row[k], s)]

\* A variant that divides without the s <= 0 test (0/0 is NaN).
normalizeVector_NoGuard(v) ==
    LET s == RSum(v)
    IN  [k \in 1..Len(v) |-> IF IsNum(s) /\ s[1] = 0 THEN NaN ELSE RDiv(v[k], s)]

\* normalizeVector (app.js:34-38)
normalizeVector(v) ==
    LET s == RSum(v)
    IN  IF IsNum(s) /\ s[1] <= 0 THEN [k \in 1..Len(v) |-> Zero]
        ELSE [k \in 1..Len(v) |-> RDiv(v[k], s)]

\* sum over k = from..n of p[k]*M[k][j]  (the inner loop of multRowVecMat)
RECURSIVE DotCol(_, _, _, _)
DotCol(v, M, j, from) ==
    IF from > Len(M) THEN Zero
    ELSE Eager2(RAdd, RMul(Elem(v, from), Elem(M[from], j)),
                      DotCol(v, M, j, from + 1))

\* A variant that multiplies by the transpose (P[j][k] for P[k][j]).
multRowVecMat_Transposed(v, M) ==
    [j \in 1..Len(M) |->
        SumFrom([k \in 1..Len(M) |-> RMul(Elem(v, k), Elem(M[j], k))], 1)]

\* multRowVecMat (app.js:39-48): r[j] = sum_k p[k]*P[k][j], n = P.length
multRowVecMat(v, M) == [j \in 1..Len(M) |-> DotCol(v, M, j, 1)]

\* x < -1e-12
BelowNegTol(x) ==
    IsNum(x) /\ x[1] < 0 /\ (0 - x[1]) > (x[2] \div 1000000) \div 1000000

\* Math.abs(s - 1) > 1e-9
SumOffByTol(s) ==
    IsNum(s) /\ (IF s[1] >= s[2] THEN s[1] - s[2] ELSE s[2] - s[1])
                    > s[2] \div 1000000000

\* A variant that only checks the sign of the entries, not the row sums.
isRowStochastic_NoSum(M) ==
    \A i \in 1..Len(M) : ~(\E j \in 1..Len(M[i]) : BelowNegTol(M[i][j]))

\* isRowStochastic (app.js:54-61), tol = 1e-9
isRowStochastic(M) ==
    \A i \in 1..Len(M) :
        /\ ~(\E j \in 1..Len(M[i]) : BelowNegTol(M[i][j]))
        /\ ~SumOffByTol(RSum(M[i]))

\* Math.abs(x - expected) > 1e-12 for expected in {0, 1}
FarFrom(x, expected) ==
    IsNum(x) /\ (IF x[1] >= expected * x[2] THEN x[1] - expected * x[2]
                                            ELSE expected * x[2] - x[1])
                    > (x[2] \div 1000000) \div 1000000

\* the inner loop of absorbingStates for row i (1-based)
RowIsAbs(M, i) ==
    \A j \in 1..Len(M) : ~FarFrom(Elem(M[i], j), IF i = j THEN 1 ELSE 0)

RECURSIVE AbsFrom(_, _)
AbsFrom(M, i) ==
    IF i > Len(M) THEN <<>>
    ELSE (IF RowIsAbs(M, i) THEN <<i - 1>> ELSE <<>>) \o AbsFrom(M, i + 1)

\* A variant that only looks at the diagonal entry.
absorbingStates_DiagOnly(M) ==
    LET F[i \in 1..(Len(M) + 1)] ==
            IF i > Len(M) THEN <<>>
            ELSE (IF ~FarFrom(Elem(M[i], i), 1) THEN <<i - 1>> ELSE <<>>)
                     \o F[i + 1]
    IN  F[1]

\* absorbingStates (app.js:62-74), tol = 1e-12; indices are 0-based as in
\* the code
absorbingStates(M) == AbsFrom(M, 1)

\* <<quotient, remainder>> of (a + b) by d, for remainders a[2], b[2] < d
AddMod(a, b, d) ==
    IF a[2] >= d - b[2] THEN <<a[1] + b[1] + 1, a[2] - (d - b[2])>>
    ELSE <<a[1] + b[1], a[2] + b[2]>>

\* <<quotient, remainder>> of r*k by d (r < d), by doubling
Twice(h, d) == AddMod(h, h, d)
RECURSIVE TimesK(_, _, _)
TimesK(r, k, d) ==
    IF k = 0 THEN <<0, 0>>
    ELSE IF k % 2 = 1 THEN Eager3(AddMod, TimesK(r, k - 1, d), <<0, r>>, d)
    ELSE Eager2(Twice, TimesK(r, k \div 2, d), d)

\* parseFloat(x.toFixed(3)) (app.js:108, 118 with 134, 141, 470, 478): the
\* value an input shows for x, rounded to the nearest thousandth (half up)
toFixed3(x) ==
    IF ~IsNum(x) \/ x[1] < 0 THEN x
    ELSE LET q == x[1] \div x[2]
             m == TimesK(x[1] % x[2], 1000, x[2])
             up == IF m[2] >= x[2] - m[2] THEN 1 ELSE 0
         IN  Rat(SafePlus(SafeTimes(q, 1000), m[1] + up), 1000)

\* if (!Number.isFinite(v) || v < 0) v = 0   (app.js:471, 479)
Sanitize(v) == IF ~IsNum(v) \/ v[1] < 0 THEN Zero ELSE v


\* ------------------------------------------------------------------ state
VARIABLES
    labels,     \* state.labels
    P,          \* state.P, a sequence of rows
    p0,         \* state.p0
    p,          \* state.p, the session's current distribution
    stepIdx,    \* state.stepIdx, the step counter t
    running,    \* state.running
    timer,      \* state.timer: the id of the last timeout set, 0 for null
    pending,    \* the browser's pending timeouts: {[id, maxSteps]}, maxSteps
                \* being the variable the tick closure captured
    cells,      \* the values of the inputs #matrixTable .cell
    inits,      \* the values of the inputs #initTable .init
    analysis,   \* the last line appended to #analysis: [kind, idx]
    edits,      \* number of configuration edits so far (bounded by MaxEdits)
    run,        \* history of the last run(): [t0, max, steps, clean, ended]
    dist,       \* history: p descends from a reset with positive-sum p0,
                \* the number of states unchanged since
    call        \* a call of stationaryDistribution: its arguments and, once
                \* it has returned, its result

vars == <<labels, P, p0, p, stepIdx, running, timer, pending, cells, inits,
          analysis, edits, run, dist, call>>
page == <<labels, P, p0, p, stepIdx, running, timer, pending, cells, inits,
          analysis, edits, run, dist>>
config == <<labels, P, p0, cells, inits>>
session == <<p, stepIdx>>
loop == <<running, timer, pending>>

\* ------------------------------------------------------------- inputs
Half == <<1, 2>>
\* 0.9999999995: within 1e-9 of 1, yet not 1
NearOne == <<1999999999, 2000000000>>
\* a text parseFloat turns into a negative number
Negative == <<-1, 1>>
\* what the user types into a matrix cell
CellVals == {Negative, Half, NearOne}
\* the same without the value that needs ten decimals
PlainVals == {Negative, Half}
\* what the user types into a cell of the initial distribution
InitVals == {Negative, One}
\* rows of values Math.random() returns, for n states
RandRows(n) ==
    {[k \in 1..n |-> <<1, 4>>],
     [k \in 1..n |-> IF k = 1 THEN <<1, 2>> ELSE <<1, 4>>]}
\* what the user types into #maxSteps
MaxStepsInputs == {0, 2, 2000}
Presets == {"weather", "web", "absorbing", "custom"}

\* `State ${n+1}`
StateName(k) ==
    <<"State 1", "State 2", "State 3", "State 4", "State 5", "State 6">>[k]

Hundredths(k) == Rat(k, 100)

PresetLabels(which) ==
    CASE which = "weather" -> <<"Sunny", "Rainy">>
      [] which = "web" -> <<"Home", "Product", "Checkout">>
      [] which = "absorbing" -> <<"Play", "Win", "Lose">>
      [] which = "custom" -> <<"State 1", "State 2", "State 3">>

PresetP(which) ==
    CASE which = "weather" ->
            << <<Hundredths(80), Hundredths(20)>>,
               <<Hundredths(40), Hundredths(60)>> >>
      [] which = "web" ->
            << <<Hundredths(70), Hundredths(25), Hundredths(5)>>,
               <<Hundredths(10), Hundredths(75), Hundredths(15)>>,
               <<Hundredths(5), Hundredths(10), Hundredths(85)>> >>
      [] which = "absorbing" ->
            << <<Hundredths(85), Hundredths(10), Hundredths(5)>>,
               <<Zero, One, Zero>>,
               <<Zero, Zero, One>> >>
      [] which = "custom" ->
            << <<One, Zero, Zero>>, <<Zero, One, Zero>>, <<Zero, Zero, One>> >>

PresetP0(which) ==
    CASE which = "weather" -> <<One, Zero>>
      [] OTHER -> <<One, Zero, Zero>>

NoMsg == [kind |-> "", idx |-> <<>>]
WarnMsg == [kind |-> "warn", idx |-> <<>>]
StationaryMsg == [kind |-> "stationary", idx |-> <<>>]
AbsorbingMsg(idx) ==
    [kind |-> IF idx = <<>> THEN "none" ELSE "absorbing", idx |-> idx]

NoRun == [t0 |-> 0, max |-> 0, steps |-> 0, clean |-> FALSE, ended |-> "max"]
\* The history of a run is kept while every tick of it has stepped and
\* nothing else has changed the step counter.
Kept(r) == IF r.clean THEN r ELSE NoRun

\* no call of stationaryDistribution
NoResult == [pi |-> [num |-> <<>>, den |-> <<>>], mults |-> 0,
             converged |-> FALSE]
NoCall == [P |-> [num |-> <<>>, den |-> <<>>],
           tol |-> [num |-> <<>>, den |-> <<>>],
           maxIter |-> 0, returned |-> FALSE, out |-> NoResult]

\* --------------------------------------------------------- DOM helpers
\* updateMatrixHeaders (app.js:95-130): the inputs are rebuilt from the
\* current values, each shown with three decimals
HeaderCells(lbls, M) ==
    [i \in 1..Len(lbls) |-> [j \in 1..Len(M[i]) |-> toFixed3(M[i][j])]]
HeaderInits(v) == [j \in 1..Len(v) |-> toFixed3(v[j])]

\* syncFromInputs (app.js:465-485): every input overwrites its entry
syncP ==
    [i \in 1..Len(P) |-> [j \in 1..Len(P[i]) |->
        IF i <= Len(cells) /\ j <= Len(cells[i])
        THEN Sanitize(cells[i][j]) ELSE P[i][j]]]
syncP0 ==
    [j \in 1..Len(p0) |-> IF j <= Len(inits) THEN Sanitize(inits[j]) ELSE p0[j]]

\* resetSim (app.js:239-251)
resetSim(v0) ==
    [stepIdx |-> 0, p |-> normalizeVector(v0), analysis |-> NoMsg]

PositiveSum(v) == LET s == RSum(v) IN IsNum(s) /\ s[1] > 0

\* the state after construction and main() (app.js:10-21, 514-519)
Init ==
    /\ labels = PresetLabels("weather")
    /\ P = PresetP("weather")
    /\ p0 = PresetP0("weather")
    /\ cells = HeaderCells(labels, P)
    /\ inits = HeaderInits(p0)
    /\ stepIdx = 0
    /\ p = normalizeVector(p0)
    /\ analysis = NoMsg
    /\ running = FALSE
    /\ timer = 0
    /\ pending = {}
    /\ edits = 0
    /\ run = NoRun
    /\ dist = TRUE
    /\ call = NoCall


\* ------------------------------------------------- configuration handlers
Rebuilt(lbls, M, v) ==
    /\ cells' = HeaderCells(lbls, M)
    /\ inits' = HeaderInits(v)

\* loadPreset (app.js:198-236); a running run is not stopped
LoadPreset(which) ==
    LET r == resetSim(PresetP0(which))
    IN  /\ labels' = PresetLabels(which)
        /\ P' = PresetP(which)
        /\ p0' = PresetP0(which)
        /\ Rebuilt(labels', P', p0')
        /\ stepIdx' = r.stepIdx
        /\ p' = r.p
        /\ analysis' = r.analysis
        /\ run' = NoRun
        /\ dist' = PositiveSum(p0')
        /\ UNCHANGED <<loop, edits>>

\* addState (app.js:146-157); state.p is left as it is
AddState ==
    LET n == Len(labels)
        grown == [i \in 1..Len(P) |-> Append(P[i], Zero)]
        pushed == Append(grown, [j \in 1..(n + 1) |-> Zero])
    IN  /\ edits < MaxEdits
        /\ labels' = Append(labels, StateName(n + 1))
        /\ P' = [pushed EXCEPT ![n + 1][n + 1] = One]
        /\ p0' = Append(p0, Zero)
        /\ Rebuilt(labels', P', p0')
        /\ edits' = edits + 1
        /\ dist' = FALSE
        /\ UNCHANGED <<session, loop, analysis, run>>

\* A variant that forgets state.p0.pop().
removeState_KeepP0(lbls, M, v) ==
    [labels |-> SubSeq(lbls, 1, Len(lbls) - 1),
     P |-> [i \in 1..(Len(M) - 1) |-> SubSeq(M[i], 1, Len(M[i]) - 1)],
     p0 |-> v]

\* removeState (app.js:160-163), past the test of line 159
removeState(lbls, M, v) ==
    [labels |-> SubSeq(lbls, 1, Len(lbls) - 1),
     P |-> [i \in 1..(Len(M) - 1) |-> SubSeq(M[i], 1, Len(M[i]) - 1)],
     p0 |-> SubSeq(v, 1, Len(v) - 1)]

\* removeState (app.js:158-168); state.p is left as it is
RemoveState ==
    IF Len(labels) <= 1 THEN UNCHANGED vars
    ELSE LET r == removeState(labels, P, p0)
         IN  /\ edits < MaxEdits
             /\ labels' = r.labels
             /\ P' = r.P
             /\ p0' = r.p0
             /\ Rebuilt(labels', P', p0')
             /\ edits' = edits + 1
             /\ dist' = FALSE
             /\ UNCHANGED <<session, loop, analysis, run>>

\* randomizeMatrix (app.js:170-179); the random numbers of one row are
\* drawn from RandRows, and every row draws the same ones
RandomizeMatrix ==
    \E raw \in RandRows(Len(P)) :
        /\ edits < MaxEdits
        /\ P' = [i \in 1..Len(P) |-> normalizeRow(raw)]
        /\ RepMat(P')
        /\ Rebuilt(labels, P', p0)
        /\ edits' = edits + 1
        /\ UNCHANGED <<labels, p0, session, loop, analysis, run, dist>>

\* normalizeRows (app.js:181-185)
NormalizeRows ==
    /\ edits < MaxEdits
    /\ P' = [i \in 1..Len(P) |-> normalizeRow(P[i])]
    /\ RepMat(P')
    /\ Rebuilt(labels, P', p0)
    /\ edits' = edits + 1
    /\ UNCHANGED <<labels, p0, session, loop, analysis, run, dist>>

\* setUniformInit (app.js:187-191)
SetUniformInit ==
    /\ edits < MaxEdits
    /\ p0' = [i \in 1..Len(labels) |-> Rat(1, Len(labels))]
    /\ Rebuilt(labels, P, p0')
    /\ edits' = edits + 1
    /\ UNCHANGED <<labels, P, session, loop, analysis, run, dist>>

\* normalizeInit (app.js:192-195)
NormalizeInit ==
    /\ edits < MaxEdits
    /\ p0' = normalizeVector(p0)
    /\ RepVec(p0')
    /\ Rebuilt(labels, P, p0')
    /\ edits' = edits + 1
    /\ UNCHANGED <<labels, P, session, loop, analysis, run, dist>>

\* onMatrixChange (app.js:132-138), the input (i, j) showing v
onMatrixChange(M, C, i, j, v) ==
    IF ~IsNum(v) \/ v[1] < 0
    THEN [P |-> M, cells |-> [C EXCEPT ![i][j] = Zero]]
    ELSE [P |-> [M EXCEPT ![i][j] = v], cells |-> [C EXCEPT ![i][j] = v]]

\* The user types v into cell (i, j) and leaves it: the input fires
\* "change" and then "blur", both wired to onMatrixChange (app.js:122-125).
EditCellOf(vals) ==
    \E i \in 1..Len(cells) : \E j \in 1..Len(cells[i]) : \E v \in vals :
        LET change == onMatrixChange(P, cells, i, j, v)
            blur == onMatrixChange(change.P, change.cells, i, j,
                                   change.cells[i][j])
        IN  /\ edits < MaxEdits
            /\ P' = blur.P
            /\ cells' = blur.cells
            /\ edits' = edits + 1
            /\ UNCHANGED <<labels, p0, inits, session, loop, analysis, run,
                           dist>>

EditCell == EditCellOf(CellVals)

\* onInitChange (app.js:139-144), the input j showing v
onInitChange(v0, I, j, v) ==
    IF ~IsNum(v) \/ v[1] < 0
    THEN [p0 |-> v0, inits |-> [I EXCEPT ![j] = Zero]]
    ELSE [p0 |-> [v0 EXCEPT ![j] = v], inits |-> [I EXCEPT ![j] = v]]

\* The user types v into entry j of the initial distribution and leaves it
\* ("change", then "blur": app.js:126-129).
EditInit ==
    \E j \in 1..Len(inits) : \E v \in InitVals :
        LET change == onInitChange(p0, inits, j, v)
            blur == onInitChange(change.p0, change.inits, j, change.inits[j])
        IN  /\ edits < MaxEdits
            /\ p0' = blur.p0
            /\ inits' = blur.inits
            /\ edits' = edits + 1
            /\ UNCHANGED <<labels, P, cells, session, loop, analysis, run,
                           dist>>

\* ------------------------------------------------------ session handlers
\* the "reset" button (app.js:531): resetSim(); updateGraph()
ResetSim ==
    LET r == resetSim(p0)
    IN  /\ stepIdx' = r.stepIdx
        /\ p' = r.p
        /\ analysis' = r.analysis
        /\ run' = NoRun
        /\ dist' = PositiveSum(p0)
        /\ UNCHANGED <<config, loop, edits>>

\* syncFromInputs rewrites an input it had to correct (app.js:471, 479)
syncCells == [i \in 1..Len(cells) |->
                 [j \in 1..Len(cells[i]) |-> Sanitize(cells[i][j])]]
syncInits == [j \in 1..Len(inits) |-> Sanitize(inits[j])]

\* A variant without the `return` of line 257: the step is taken anyway.
stepOnce_NoReturn ==
    LET Ps == syncP
    IN  [P |-> Ps, p0 |-> syncP0, ok |-> isRowStochastic(Ps),
         p |-> multRowVecMat(p, Ps), stepIdx |-> stepIdx + 1,
         analysis |-> IF isRowStochastic(Ps) THEN analysis ELSE WarnMsg]

\* stepOnce (app.js:253-269): what it leaves in state.P, state.p0, state.p,
\* state.stepIdx and #analysis; ok tells whether the matrix was accepted
stepOnce ==
    LET Ps == syncP
    IN  IF ~isRowStochastic(Ps)
        THEN [P |-> Ps, p0 |-> syncP0, ok |-> FALSE,
              p |-> p, stepIdx |-> stepIdx, analysis |-> WarnMsg]
        ELSE [P |-> Ps, p0 |-> syncP0, ok |-> TRUE,
              p |-> multRowVecMat(p, Ps),
              stepIdx |-> stepIdx + 1, analysis |-> analysis]

\* every number stepOnce computes is representable
StepRep(s) ==
    /\ RepMat(s.P)
    /\ \A i \in 1..Len(s.P) : ~IsUnrep(RSum(s.P[i]))
    /\ RepVec(s.p)

Stepped(s) ==
    /\ P' = s.P
    /\ p0' = s.p0
    /\ p' = s.p
    /\ stepIdx' = s.stepIdx
    /\ analysis' = s.analysis
    /\ cells' = syncCells
    /\ inits' = syncInits

\* the "step" button (app.js:528)
StepOnce ==
    \E s \in {stepOnce} :
        /\ stepIdx < MaxT
        /\ StepRep(s)
        /\ Stepped(s)
        /\ run' = Kept([run EXCEPT !.clean = run.clean /\ ~s.ok])
        /\ UNCHANGED <<labels, loop, edits, dist>>

\* Math.max(1, Math.min(2000, +$("#maxSteps").value || 200))  (app.js:276)
clampMaxSteps(v) ==
    LET w == IF v = 0 THEN 200 ELSE v
        lo == IF w < 2000 THEN w ELSE 2000
    IN  IF lo > 1 THEN lo ELSE 1

\* A variant that lets the run pass the maximum by one step.
runShouldStop_Late(t, maxSteps) == t > maxSteps

\* state.stepIdx >= maxSteps  (app.js:280)
runShouldStop(t, maxSteps) == t >= maxSteps

\* A variant that forgets clearTimeout.
pause_NoClear(tm, pend) == [running |-> FALSE, timer |-> 0, pending |-> pend]

\* pause (app.js:287-292) with state.timer = tm and the timeouts pend
pause(tm, pend) ==
    [running |-> FALSE, timer |-> 0,
     pending |-> IF tm # 0 THEN {r \in pend : r.id # tm} ELSE pend]

\* the id setTimeout returns: the smallest one not in use
FreshId(pend, tm) ==
    CHOOSE k \in 1..(Cardinality(pend) + 2) :
        /\ k # tm /\ \A r \in pend : r.id # k
        /\ \A m \in 1..(k - 1) : m = tm \/ \E r \in pend : r.id = m

\* tick (app.js:277-283) past the test of line 278, with the closure's
\* maxSteps, the timeouts pend still pending and the run history r
TickBody(maxSteps, pend, r) ==
    \E s \in {stepOnce} :
        LET stop == runShouldStop(s.stepIdx, maxSteps)
            pz == pause(timer, pend)
            id == FreshId(pend, timer)
        IN  /\ stepIdx < MaxT
            /\ StepRep(s)
            /\ Stepped(s)
            /\ IF stop
               THEN /\ running' = pz.running
                    /\ timer' = pz.timer
                    /\ pending' = pz.pending
               ELSE /\ running' = TRUE
                    /\ timer' = id
                    /\ pending' = pend \cup {[id |-> id, max |-> maxSteps]}
            /\ run' = Kept([r EXCEPT !.steps = @ + (IF s.ok THEN 1 ELSE 0),
                                     !.clean = @ /\ s.ok,
                                     !.ended = IF stop THEN "max" ELSE "no"])
            /\ UNCHANGED <<labels, edits, dist>>

\* run (app.js:271-285): the first tick is taken at once
RunOf(inputs) ==
    \E v \in inputs :
        IF running THEN UNCHANGED vars
        ELSE TickBody(clampMaxSteps(v), pending,
                      [t0 |-> stepIdx, max |-> clampMaxSteps(v), steps |-> 0,
                       clean |-> TRUE, ended |-> "no"])

Run == RunOf(MaxStepsInputs)

\* a timeout fires: tick (app.js:277-283)
Tick ==
    \E t \in pending :
        IF ~running
        THEN /\ pending' = pending \ {t}
             /\ UNCHANGED <<config, session, running, timer, analysis, edits,
                            run, dist>>
        ELSE TickBody(t.max, pending \ {t}, run)

Paused ==
    LET pz == pause(timer, pending)
    IN  /\ running' = pz.running
        /\ timer' = pz.timer
        /\ pending' = pz.pending
        /\ run' = IF running THEN Kept([run EXCEPT !.ended = "cancel"])
                              ELSE run
        /\ UNCHANGED <<config, session, analysis, edits, dist>>

\* the "pause" button (app.js:530)
Pause == Paused

\* the visibilitychange listener (app.js:539-543)
VisibilityChange ==
    \E hidden \in BOOLEAN :
        IF hidden /\ running THEN Paused ELSE UNCHANGED vars

\* onCheckAbsorbing (app.js:508-511) and checkAbsorbing (app.js:309-316)
CheckAbsorbing ==
    /\ P' = syncP
    /\ p0' = syncP0
    /\ cells' = syncCells
    /\ inits' = syncInits
    /\ analysis' = AbsorbingMsg(absorbingStates(P'))
    /\ UNCHANGED <<labels, session, loop, edits, run, dist>>

\* onComputeStationary (app.js:494-505); of the line it logs only the kind
\* is kept
ComputeStationary ==
    /\ P' = syncP
    /\ \A i \in 1..Len(P') : ~IsUnrep(RSum(P'[i]))
    /\ p0' = syncP0
    /\ cells' = syncCells
    /\ inits' = syncInits
    /\ analysis' = IF isRowStochastic(P') THEN StationaryMsg ELSE WarnMsg
    /\ UNCHANGED <<labels, session, loop, edits, run, dist>>

\* The handlers of the page; the solver call of SolverSpec is not part of it.
Next ==
    \/ UNCHANGED call /\ \E which \in Presets : LoadPreset(which)
    \/ UNCHANGED call /\ AddState
    \/ UNCHANGED call /\ RemoveState
    \/ UNCHANGED call /\ RandomizeMatrix
    \/ UNCHANGED call /\ NormalizeRows
    \/ UNCHANGED call /\ SetUniformInit
    \/ UNCHANGED call /\ NormalizeInit
    \/ UNCHANGED call /\ EditCell
    \/ UNCHANGED call /\ EditInit
    \/ UNCHANGED call /\ ResetSim
    \/ UNCHANGED call /\ StepOnce
    \/ UNCHANGED call /\ Run
    \/ UNCHANGED call /\ Tick
    \/ UNCHANGED call /\ Pause
    \/ UNCHANGED call /\ VisibilityChange
    \/ UNCHANGED call /\ CheckAbsorbing
    \/ UNCHANGED call /\ ComputeStationary

Spec == Init /\ [][Next]_vars

TypeOK ==
    /\ RepMat(P) /\ RepVec(p0) /\ RepVec(p)
    /\ stepIdx \in 0..(MaxT + 1)

\* ---------------------------------------------- runs that are not cancelled
\* what the user types into #maxSteps when the run is to end within MaxT
ShortRuns == 1..MaxT

EditCellPlain == EditCellOf(PlainVals)
RunShort == RunOf(ShortRuns)

\* a timeout fires on the page
PageTick == UNCHANGED call /\ Tick

\* The page with a user who never pauses, never hides the tab, and leaves
\* the page alone while a run is in progress.
FairNext ==
    \/ ~running /\ UNCHANGED call /\ \E which \in Presets : LoadPreset(which)
    \/ ~running /\ UNCHANGED call /\ EditCellPlain
    \/ ~running /\ UNCHANGED call /\ ResetSim
    \/ UNCHANGED call /\ RunShort
    \/ PageTick

\* setTimeout callbacks are eventually run by the browser's event loop.
FairSpec == Init /\ [][FairNext]_vars /\ WF_vars(PageTick)

\* Under FairNext no bound of the model ever holds a pending tick back.
TickNeverBlocked ==
    (pending # {} /\ running) => (stepIdx < MaxT /\ StepRep(stepOnce))

\* ------------------------------------------------- the stationary solver
\* The power method multiplies by P up to 20000 times, which takes the
\* entries far beyond MaxNum: the solver's numbers are exact fractions of
\* naturals of any size.  A natural is the sequence of its digits in base
\* Base, lowest first, without a leading zero digit (<<>> is 0).
Base == 1000

Digit(a, i) == IF i \in 1..Len(a) THEN a[i] ELSE 0

\* a without its leading zero digits
Trim(a) ==
    LET nz == {i \in 1..Len(a) : a[i] # 0}
    IN  IF nz = {} THEN <<>>
        ELSE SubSeq(a, 1, CHOOSE m \in nz : \A i \in nz : i <= m)

RECURSIVE Big(_)
Big(n) == IF n = 0 THEN <<>> ELSE <<n % Base>> \o Big(n \div Base)

\* the carry into digit i of a + b
CarryIn(a, b, i) ==
    IF \E j \in 1..(i - 1) :
          /\ Digit(a, j) + Digit(b, j) >= Base
          /\ \A k \in (j + 1)..(i - 1) : Digit(a, k) + Digit(b, k) = Base - 1
    THEN 1 ELSE 0

AddDigits(a, b) ==
    [i \in 1..((IF Len(a) > Len(b) THEN Len(a) ELSE Len(b)) + 1) |->
        (Digit(a, i) + Digit(b, i) + CarryIn(a, b, i)) % Base]
BAdd(a, b) == Trim(Eager2(AddDigits, a, b))

\* the borrow from digit i of a - b
BorrowIn(a, b, i) ==
    IF \E j \in 1..(i - 1) :
          /\ Digit(a, j) < Digit(b, j)
          /\ \A k \in (j + 1)..(i - 1) : Digit(a, k) = Digit(b, k)
    THEN 1 ELSE 0

\* a - b for a >= b
SubDigits(a, b) ==
    [i \in 1..Len(a) |->
        (a[i] - Digit(b, i) - BorrowIn(a, b, i) + Base) % Base]
BSub(a, b) == Trim(Eager2(SubDigits, a, b))

BLess(a, b) ==
    IF Len(a) # Len(b) THEN Len(a) < Len(b)
    ELSE \E i \in 1..Len(a) :
            a[i] < b[i] /\ \A j \in (i + 1)..Len(a) : a[j] = b[j]

\* Math.abs(a - b)
BAbsDiff(a, b) == IF BLess(a, b) THEN BSub(b, a) ELSE BSub(a, b)

\* a[lo]*b[k+1-lo] + ... + a[hi]*b[k+1-hi]
RECURSIVE ColumnSum(_, _, _, _, _)
ColumnSum(a, b, k, lo, hi) ==
    IF lo > hi THEN 0
    ELSE IF lo = hi THEN a[lo] * b[k + 1 - lo]
    ELSE ColumnSum(a, b, k, lo, (lo + hi) \div 2)
            + ColumnSum(a, b, k, (lo + hi) \div 2 + 1, hi)

\* the columns of the long multiplication of a by b, carries not yet taken
Columns(a, b) ==
    [k \in 1..(Len(a) + Len(b) - 1) |->
        ColumnSum(a, b, k, IF k + 1 - Len(b) > 1 THEN k + 1 - Len(b) ELSE 1,
                           IF k < Len(a) THEN k ELSE Len(a))]

\* every column keeps its last digit and passes the rest one place up
CarryUp(c) ==
    [i \in 1..(Len(c) + 1) |-> (Digit(c, i) % Base) + (Digit(c, i - 1) \div Base)]

\* the digits of a number given by columns below Base + Base
Carried(c) ==
    AddDigits([i \in 1..Len(c) |-> c[i] % Base],
              [i \in 1..(Len(c) + 1) |-> Digit(c, i - 1) \div Base])

TimesDigits(a, b) ==
    IF a = <<>> \/ b = <<>> THEN <<>>
    ELSE Eager1(Carried,
           Eager1(CarryUp, Eager1(CarryUp, Eager1(CarryUp, Columns(a, b)))))
BMul(a, b) == Trim(Eager2(TimesDigits, a, b))

RECURSIVE BSumFrom(_, _)
BSumFrom(v, k) == IF k > Len(v) THEN <<>> ELSE BAdd(v[k], BSumFrom(v, k + 1))
BSum(v) == BSumFrom(v, 1)

\* A fraction is [num, den]; x < y for fractions
FracLess(x, y) == BLess(BMul(x.num, y.den), BMul(y.num, x.den))

\* A vector is [num, den], the entries num[k]/den; a matrix likewise with
\* a sequence of rows.
\* Array(n).fill(1/n)  (app.js:297)
uniform(n) == [num |-> [k \in 1..n |-> Big(1)], den |-> Big(n)]

\* multRowVecMat (app.js:39-48) on such a vector and matrix
multRowVecMatBig(v, M) ==
    [num |-> [j \in 1..Len(M.num) |->
                 BSum([k \in 1..Len(M.num) |-> BMul(v.num[k], M.num[k][j])])],
     den |-> BMul(v.den, M.den)]

\* l1 (app.js:49-53): the sum of |a[i] - b[i]|, a fraction
l1(a, b) ==
    [num |-> BSum([i \in 1..Len(a.num) |->
                      BAbsDiff(BMul(a.num[i], b.den), BMul(b.num[i], a.den))]),
     den |-> BMul(a.den, b.den)]

\* the loop of stationaryDistribution (app.js:298-304) from iteration iter
\* with the vector pi; mults counts the calls of multRowVecMat
RECURSIVE powerLoop(_, _, _, _, _)
powerLoop(M, tol, maxIter, pi, iter) ==
    IF ~(iter < maxIter)
    THEN [pi |-> pi, mults |-> iter, converged |-> FALSE]
    ELSE LET next == multRowVecMatBig(pi, M)
         IN  IF FracLess(l1(next, pi), tol)
             THEN [pi |-> next, mults |-> iter + 1, converged |-> TRUE]
             ELSE powerLoop(M, tol, maxIter, next, iter + 1)

\* A variant that starts from the first state instead of the uniform vector.
stationaryDistribution_FromFirst(M, tol, maxIter) ==
    powerLoop(M, tol, maxIter,
              [num |-> [k \in 1..Len(M.num) |-> IF k = 1 THEN Big(1) ELSE <<>>],
               den |-> Big(1)], 0)

\* stationaryDistribution (app.js:295-306)
stationaryDistribution(M, tol, maxIter) ==
    powerLoop(M, tol, maxIter, uniform(Len(M.num)), 0)

\* Largest maxIter with which every matrix and tolerance is tried.
MaxIter == 3

TenBillion == BMul(Big(100000), Big(100000))

\* A matrix of Hundredths
BigMatrix(rows) ==
    [num |-> [i \in 1..Len(rows) |-> [j \in 1..Len(rows[i]) |-> Big(rows[i][j])]],
     den |-> Big(100)]

WeatherBig == BigMatrix(<< <<80, 20>>, <<40, 60>> >>)
WebBig == BigMatrix(<< <<70, 25, 5>>, <<10, 75, 15>>, <<5, 10, 85>> >>)
AbsorbingBig == BigMatrix(<< <<85, 10, 5>>, <<0, 100, 0>>, <<0, 0, 100>> >>)
IdentityBig == BigMatrix(<< <<100, 0, 0>>, <<0, 100, 0>>, <<0, 0, 100>> >>)
\* a chain of period 2 of which the uniform vector is stationary
SwapBig == BigMatrix(<< <<0, 100>>, <<100, 0>> >>)
\* a chain of period 2 on which the power method oscillates
PeriodicBig == BigMatrix(<< <<0, 100, 0>>, <<50, 0, 50>>, <<0, 100, 0>> >>)
OneStateBig == BigMatrix(<< <<100>> >>)
\* row 0 sums to 1.1
InvalidBig == BigMatrix(<< <<50, 60>>, <<40, 60>> >>)
\* [[0.9999999995]]: passes isRowStochastic, its row does not sum to 1
NearOneBig == [num |-> << <<BSub(TenBillion, Big(5))>> >>, den |-> TenBillion]

SolverMatrices ==
    {WeatherBig, WebBig, AbsorbingBig, IdentityBig, SwapBig, PeriodicBig,
     OneStateBig, InvalidBig, NearOneBig}

\* tol = 1e-10, the default
DefaultTol == [num |-> Big(1), den |-> TenBillion]
\* maxIter = 20000, the default
DefaultMaxIter == 20000
CoarseTol == [num |-> Big(1), den |-> Big(100)]
ZeroTol == [num |-> <<>>, den |-> Big(1)]
SolverTols == {DefaultTol, CoarseTol, ZeroTol}

\* the matrices on which the power method meets either tolerance within a
\* few dozen iterations
QuickMatrices == {WeatherBig, IdentityBig, SwapBig, OneStateBig}

\* the calls tried: every matrix and tolerance with maxIter up to MaxIter,
\* and the default maxIter where the loop ends by convergence
SolverCalls ==
    (SolverMatrices \X SolverTols \X (0..MaxIter))
        \cup (QuickMatrices \X {DefaultTol, CoarseTol} \X {DefaultMaxIter})

SolverInit ==
    /\ labels = PresetLabels("weather")
    /\ P = PresetP("weather")
    /\ p0 = PresetP0("weather")
    /\ cells = HeaderCells(labels, P)
    /\ inits = HeaderInits(p0)
    /\ stepIdx = 0
    /\ p = normalizeVector(p0)
    /\ analysis = NoMsg
    /\ running = FALSE
    /\ timer = 0
    /\ pending = {}
    /\ edits = 0
    /\ run = NoRun
    /\ dist = TRUE
    /\ \E c \in SolverCalls :
          call = [P |-> c[1], tol |-> c[2], maxIter |-> c[3],
                  returned |-> FALSE, out |-> NoResult]

\* the call returns
Solve ==
    /\ ~call.returned
    /\ call' = [call EXCEPT
                   !.returned = TRUE,
                   !.out = stationaryDistribution(call.P, call.tol,
                                                  call.maxIter)]
    /\ UNCHANGED page

SolverNext == Solve

SolverSpec == SolverInit /\ [][SolverNext]_vars

\* ------------------------------------------------------------ properties
\* The row-stochastic check as the specification words it: some entry
\* below -1e-12, or some row with |rowSum - 1| > 1e-9.
FailsRowCheck(M) ==
    \E i \in 1..Len(M) :
        \/ \E j \in 1..Len(M[i]) : BelowNegTol(M[i][j])
        \/ SumOffByTol(RSum(M[i]))

NonNegative(v) == \A k \in 1..Len(v) : IsNum(v[k]) /\ v[k][1] >= 0

\* C1: whenever the matrix the handler checks (state.P as read back from the
\* inputs) fails the row-stochastic check, a step request, a tick of the run
\* loop and a compute-stationary request each log the invalid-matrix warning
\* and leave p and t as they were.
C1_InvalidMatrixRefused ==
    [][((StepOnce \/ ComputeStationary \/ Tick) /\ FailsRowCheck(P'))
          => (analysis' = WarnMsg /\ p' = p /\ stepIdx' = stepIdx)]_vars

\* C1 witness: steps were taken, the matrix was then made invalid and a
\* request was refused with the warning.
C1_Witness ==
    /\ analysis = WarnMsg
    /\ FailsRowCheck(P)
    /\ stepIdx >= 1
    /\ edits >= 1

\* sum over k of v[k]*M[k][j]
ColSum(v, M, j) == RSum([k \in 1..Len(M) |-> RMul(v[k], M[k][j])])

Weather == PresetP("weather")

\* C2: when the matrix passes the check, one step replaces p by the
\* row-vector product p*P (p of the length of P), without renormalizing, and
\* adds exactly 1 to t; from the weather preset and p = [1, 0] the first step
\* gives [0.8, 0.2] at t = 1 and the second [0.72, 0.28] at t = 2.
C2_StepIsProduct ==
    [][(StepOnce /\ ~FailsRowCheck(P') /\ Len(p) = Len(P'))
          => /\ stepIdx' = stepIdx + 1
             /\ Len(p') = Len(P')
             /\ \A j \in 1..Len(P') : p'[j] = ColSum(p, P', j)
             /\ (P' = Weather /\ stepIdx = 0 /\ p = <<One, Zero>>)
                    => p' = <<Rat(8, 10), Rat(2, 10)>>
             /\ (P' = Weather /\ stepIdx = 1 /\ p = <<Rat(8, 10), Rat(2, 10)>>)
                    => p' = <<Rat(72, 100), Rat(28, 100)>>]_vars

\* C2 witness: the weather chain after its second step.
C2_Witness ==
    /\ P = Weather
    /\ stepIdx = 2
    /\ p = <<Rat(72, 100), Rat(28, 100)>>

\* C3: once the run is paused (by the pause control or by the page becoming
\* hidden) no tick is left pending, so the run loop changes nothing until run
\* is started again; a run of valid steps from t0 that was cancelled after k
\* ticks leaves t = t0 + k.
C3_PauseIsImmediate ==
    /\ [](~running => pending = {})
    /\ []((run.clean /\ run.ended = "cancel")
             => (~running /\ stepIdx = run.t0 + run.steps))
    /\ [][(Pause \/ (running /\ VisibilityChange /\ ~running'))
             => (~running' /\ pending' = {} /\ UNCHANGED session)]_vars

\* C3 witness: a run with maxSteps = 2000 from t = 0, cancelled after its
\* third tick.
C3_Witness ==
    /\ run.clean /\ run.ended = "cancel"
    /\ run.max = 2000 /\ run.t0 = 0 /\ run.steps = 3
    /\ stepIdx = 3
    /\ ~running /\ pending = {}

\* C4 (as claimed): a run that is never cancelled eventually stops, with no
\* tick pending, whatever the matrix holds.
C4_RunEventuallyStops == running ~> (~running /\ pending = {})

\* C5: the configuration keeps its shape: n >= 1 labels, P is n by n, p0 has
\* n entries; remove-state at n = 1 changes nothing.
C5_ShapeKept ==
    /\ [](/\ Len(labels) >= 1
          /\ Len(P) = Len(labels)
          /\ \A i \in 1..Len(P) : Len(P[i]) = Len(labels)
          /\ Len(p0) = Len(labels))
    /\ [][(RemoveState /\ Len(labels) = 1) => UNCHANGED vars]_vars

\* C5 witness: a state was removed from the weather chain and one state is
\* left.
C5_Witness ==
    /\ edits >= 1
    /\ Len(labels) = 1 /\ Len(P) = 1 /\ Len(P[1]) = 1 /\ Len(p0) = 1

\* C6 (as claimed): p has as many entries as there are labels and as P has
\* rows.
C6_SessionMatchesLabels == Len(p) = Len(labels) /\ Len(p) = Len(P)

\* p0 divided by its sum, or all zeros when the sum is <= 0
ExpectedReset(v) ==
    IF PositiveSum(v) THEN [k \in 1..Len(v) |-> RDiv(v[k], RSum(v))]
    ELSE [k \in 1..Len(v) |-> Zero]

\* C7: a reset leaves t = 0 and p = p0 / sum(p0), or all zeros when the sum
\* of p0 is <= 0, whatever P holds, and does not change p0.
C7_Reset ==
    [][ResetSim => (/\ stepIdx' = 0
                    /\ p' = ExpectedReset(p0)
                    /\ Len(p') = Len(p0)
                    /\ p0' = p0)]_vars

\* C7 witness: a reset with an all-zero p0.
C7_Witness ==
    /\ edits >= 1
    /\ ~PositiveSum(p0)
    /\ stepIdx = 0
    /\ p = [k \in 1..Len(p0) |-> Zero]

\* the 0-based indices i, in increasing order, whose row is the i-th
\* standard basis vector (within 1e-12: no representable number is that
\* close to 0 or 1 without being equal to it)
ExpectedAbs(M) ==
    LET F[i \in 0..Len(M)] ==
            IF i = 0 THEN <<>>
            ELSE IF \A j \in 1..Len(M) :
                        M[i][j] = (IF i = j THEN One ELSE Zero)
                 THEN Append(F[i - 1], i - 1)
                 ELSE F[i - 1]
    IN  F[Len(M)]

\* C8: absorbingStates(P) is exactly the increasing list of the indices
\* whose row is that standard basis vector: every index for an identity
\* matrix, none when no row is one, 1 and 2 for the absorbing preset; the
\* check-absorbing request reports that list.
C8_AbsorbingExact ==
    /\ absorbingStates(P) = ExpectedAbs(P)
    /\ P = PresetP("custom") => absorbingStates(P) = <<0, 1, 2>>
    /\ P = PresetP("absorbing") => absorbingStates(P) = <<1, 2>>
    /\ P = PresetP("web") => absorbingStates(P) = <<>>

\* C8 witness: the check-absorbing request on the absorbing preset.
C8_Witness ==
    /\ P = PresetP("absorbing")
    /\ analysis = AbsorbingMsg(<<1, 2>>)

WithinTol(a, b) ==
    IF a = b THEN TRUE
    ELSE LET x == SafeTimes(b[1], a[2])
             y == SafeTimes(a[1], b[2])
         IN  /\ IsNum(a) /\ IsNum(b)
             /\ x >= 0 /\ y >= 0
             /\ (IF x >= y THEN x - y ELSE y - x) <= y \div 1000000000

Larger(a, b) == IF a >= b THEN a ELSE b

\* C10 (as claimed): a run started with maxSteps = N at t0 that was never
\* cancelled, every tick of it stepping, takes exactly N steps and stops at
\* t = t0 + N.
C10_RunsExactlyN ==
    (run.clean /\ run.ended = "max")
        => (run.steps = run.max /\ stepIdx = run.t0 + run.max)

\* C10 (amended): such a run stops at the first tick after which
\* t >= N: it takes max(1, N - t0) steps and stops at t = max(N, t0 + 1).
C10_RunsUntilMax ==
    (run.clean /\ run.ended = "max")
        => /\ ~running /\ pending = {}
           /\ run.max \in 1..2000
           /\ run.steps = Larger(1, run.max - run.t0)
           /\ stepIdx = Larger(run.max, run.t0 + 1)

\* C10 witness: a run with maxSteps = 2 started after one manual step.
C10_Witness ==
    /\ run.clean /\ run.ended = "max"
    /\ run.t0 = 1 /\ run.max = 2 /\ run.steps = 1
    /\ stepIdx = 2

\* the t-th iterate of the power method from the uniform vector
RECURSIVE Iterate(_, _)
Iterate(M, t) ==
    IF t = 0 THEN [num |-> [k \in 1..Len(M.num) |-> <<1>>],
                   den |-> Big(Len(M.num))]
    ELSE Eager2(multRowVecMatBig, Iterate(M, t - 1), M)

\* the t-th iterate is within tol of its predecessor
Settled(M, tol, t) ==
    FracLess(Eager2(l1, Iterate(M, t), Iterate(M, t - 1)), tol)

\* non-negative entries (every entry is a natural over M.den) and every row
\* summing to exactly 1
ExactlyStochastic(M) == \A i \in 1..Len(M.num) : BSum(M.num[i]) = M.den

Millionth == [num |-> Big(1), den |-> Big(1000000)]
TwoThirds == [num |-> <<Big(2), Big(1)>>, den |-> Big(3)]

\* C11: a call of stationaryDistribution(P, tol, maxIter) returns after at
\* most maxIter multiplications; it returns the first iterate from the
\* uniform vector that is within tol of its predecessor, and the maxIter-th
\* iterate when there is none; for a P whose rows sum to 1 the result sums
\* to 1; for the weather matrix with the defaults it is within 1e-6 of
\* [2/3, 1/3] and its residual is below 1e-6.
C11_PowerMethod ==
    call.returned =>
        LET M == call.P
            r == call.out
        IN  /\ r.mults \in 0..call.maxIter
            /\ Len(r.pi.num) = Len(M.num)
            /\ r.pi = Iterate(M, r.mults)
            /\ \A t \in 1..(r.mults - 1) : ~Settled(M, call.tol, t)
            /\ r.converged => (r.mults >= 1 /\ Settled(M, call.tol, r.mults))
            /\ ~r.converged
                  => /\ r.mults = call.maxIter
                     /\ r.mults >= 1 => ~Settled(M, call.tol, r.mults)
            /\ ExactlyStochastic(M) => BSum(r.pi.num) = r.pi.den
            /\ (M = WeatherBig /\ call.tol = DefaultTol
                    /\ call.maxIter = DefaultMaxIter)
                  => /\ r.converged
                     /\ FracLess(l1(r.pi, TwoThirds), Millionth)
                     /\ FracLess(l1(multRowVecMatBig(r.pi, M), r.pi),
                                 Millionth)

\* C11 witness: the default call on the weather matrix has converged, after
\* 25 multiplications.
C11_Witness ==
    /\ call.returned
    /\ call.P = WeatherBig /\ call.tol = DefaultTol
    /\ call.maxIter = DefaultMaxIter
    /\ call.out.converged /\ call.out.mults = 25

=============================================================================
